---- MODULE Spec2Model ----
(***************************************************************************)
(* Model of macos/create-app-icon.py: the gradient renderer, the           *)
(* compositor geometry, and main() as a sequential process over a small    *)
(* filesystem (the staging directory AppIcon.iconset, its files, and the   *)
(* icon container AppIcon.icns).                                           *)
(*                                                                         *)
(* Environment outcomes are chosen nondeterministically where the code     *)
(* depends on them: whether the source image exists, whether it loads,     *)
(* whether a save raises, and how iconutil ends.  mkdir on a missing       *)
(* directory and rmtree on the directory the run has just populated are    *)
(* taken to succeed.  An uncaught Python exception ends the interpreter    *)
(* with exit status 1.                                                     *)
(***************************************************************************)
EXTENDS Integers, Sequences, FiniteSets, TLC

\* Number of consecutive runs of main() the pipeline specification explores.
MaxRuns == 3

\* ------------------------------------------------------------------------
\* Constants of the script
\* ------------------------------------------------------------------------
INDIGO_500 == <<99, 102, 241>>
VIOLET_500 == <<139, 92, 246>>
PURPLE_500 == <<168, 85, 247>>

ICON_SIZES == <<16, 32, 64, 128, 256, 512, 1024>>

\* ------------------------------------------------------------------------
\* Arithmetic helpers
\* ------------------------------------------------------------------------
\* Python's int() on the quotient num/den (den > 0): truncation toward zero.
Trunc(num, den) ==
  IF num >= 0 THEN num \div den ELSE -((-num) \div den)

Abs(n) == IF n >= 0 THEN n ELSE -n

\* ------------------------------------------------------------------------
\* create_gradient_background
\* ------------------------------------------------------------------------
\* One channel: int(a + (b - a) * t) with t = tnum / tden.  Every size the
\* script renders is a power of two, so distance, t and the products are
\* exact in binary floating point and the value is the exact rational.
Interp(a, b, tnum, tden) == Trunc(a * tden + (b - a) * tnum, tden)

\* Slip: the second half interpolates from the first stop instead of the
\* middle one.
GradientPixelFromIndigo(size, x, y) ==
  IF x + y < size
    THEN [c \in 1..3 |-> Interp(INDIGO_500[c], VIOLET_500[c], x + y, size)]
    ELSE [c \in 1..3 |-> Interp(INDIGO_500[c], PURPLE_500[c], x + y - size, size)]

\* Slip: the second half uses t = distance - 0.5 without doubling it.
GradientPixelHalfT(size, x, y) ==
  IF x + y < size
    THEN [c \in 1..3 |-> Interp(INDIGO_500[c], VIOLET_500[c], x + y, size)]
    ELSE [c \in 1..3 |->
            Interp(VIOLET_500[c], PURPLE_500[c], x + y - size, 2 * size)]

\* The colour of pixel (x, y): distance = (x + y) / (2 * size);
\* distance < 0.5 iff x + y < size; there t = distance * 2 = (x + y) / size,
\* otherwise t = (distance - 0.5) * 2 = (x + y - size) / size.
GradientPixel(size, x, y) ==
  IF x + y < size
    THEN [c \in 1..3 |-> Interp(INDIGO_500[c], VIOLET_500[c], x + y, size)]
    ELSE [c \in 1..3 |-> Interp(VIOLET_500[c], PURPLE_500[c], x + y - size, size)]

\* ------------------------------------------------------------------------
\* create_icon_size
\* ------------------------------------------------------------------------
\* Slip: the scaled side is rounded to nearest instead of truncated.
OctoSizeRounded(size) == Trunc(size * 8 + 5, 10)

\* octo_size = int(size * 0.8)
OctoSize(size) == Trunc(size * 8, 10)

\* x_offset = y_offset = (size - octo_size) // 2
Offset(size, octo_size) == (size - octo_size) \div 2

\* The composited icon: the gradient canvas of side `size` with the source
\* resized to octo_size x octo_size placed at (x_offset, y_offset).
CreateIconSize(size) ==
  LET octo_size == OctoSize(size)
  IN  [request  |-> size,
       side     |-> size,
       corner   |-> GradientPixel(size, 0, 0),
       octo_size |-> octo_size,
       x_offset |-> Offset(size, octo_size),
       y_offset |-> Offset(size, octo_size)]

NoIcon ==
  [request |-> 0, side |-> 0, corner |-> <<0, 0, 0>>, octo_size |-> 0,
   x_offset |-> 0, y_offset |-> 0]

\* ------------------------------------------------------------------------
\* Staged file names and the emission rule of main()
\* ------------------------------------------------------------------------
\* icon_{size}x{size}.png is <<size, FALSE>>, icon_{size}x{size}@2x.png is
\* <<size, TRUE>>.
IconName(size, retina) == <<size, retina>>

SizeSet == {ICON_SIZES[i] : i \in 1..Len(ICON_SIZES)}

\* Slip: the @2x variant is written for every size below 1024.
NeedsRetinaBelow1024(size) == size < 1024

\* `if size <= 128:` ... `if size < 1024:` guards the @2x variant.
NeedsRetina(size) == size <= 128 /\ size < 1024

BaseNames == {IconName(s, FALSE) : s \in SizeSet}
RetinaNames == {IconName(s, TRUE) : s \in SizeSet}

\* ------------------------------------------------------------------------
\* State
\* ------------------------------------------------------------------------
VARIABLES
  pc,          \* position of main(): idle, check, load, mkdir, emit, emit2x,
               \* package, cleanup, done
  run,         \* number of runs started so far
  idx,         \* index into ICON_SIZES of the loop in main()
  icon,        \* the icon most recently returned by create_icon_size
  dirExists,   \* AppIcon.iconset exists
  files,       \* files in AppIcon.iconset: name -> [pixels, run]
  icns,        \* AppIcon.icns: [exists, run]
  exitStatus,  \* exit status of the run; -1 while it is running
  cause,       \* how the run ended
  srcFound,    \* octo_source.exists() was true in this run
  loaded,      \* Image.open succeeded in this run
  createdDir,  \* mkdir of this run created the directory
  written,     \* names saved by this run
  packCalls,   \* invocations of iconutil in this run
  packRc,      \* return code of iconutil in this run; -1 if none
  stages,      \* stages this run has entered, in order
  fs0,         \* filesystem at the start of this run
  lastPastLoad,\* outcome of the latest run that got past loading the image
  gsize, gx, gy, gpix   \* a rendered gradient and one observed pixel of it

pipeVars ==
  <<pc, run, idx, icon, dirExists, files, icns, exitStatus, cause, srcFound,
    loaded, createdDir, written, packCalls, packRc, stages, fs0, lastPastLoad>>

gradVars == <<gsize, gx, gy, gpix>>

vars == <<pipeVars, gradVars>>

NoFiles == [n \in {} |-> 0]

FsState == [dir |-> dirExists, files |-> files, icns |-> icns]

Init ==
  /\ pc = "idle"
  /\ run = 0
  /\ idx = 1
  /\ icon = NoIcon
  /\ dirExists = FALSE
  /\ files = NoFiles
  /\ icns \in {[exists |-> FALSE, run |-> 0], [exists |-> TRUE, run |-> 0]}
  /\ exitStatus = -1
  /\ cause = "none"
  /\ srcFound = FALSE
  /\ loaded = FALSE
  /\ createdDir = FALSE
  /\ written = {}
  /\ packCalls = 0
  /\ packRc = -1
  /\ stages = << >>
  /\ fs0 = [dir |-> FALSE, files |-> NoFiles, icns |-> icns]
  /\ lastPastLoad = "none"
  /\ gsize = ICON_SIZES[1]
  /\ gx = 0
  /\ gy = 0
  /\ gpix = GradientPixel(gsize, 0, 0)

\* ------------------------------------------------------------------------
\* main(), one action per step
\* ------------------------------------------------------------------------
StageOrder == <<"load", "mkdir", "emit", "package", "cleanup">>

\* The stage history after a step of stage s.
Enter(s) ==
  IF stages # << >> /\ stages[Len(stages)] = s THEN stages ELSE Append(stages, s)

\* Writing a file creates it or replaces the file of the same name.
Put(f, n, v) == [m \in (DOMAIN f) \cup {n} |-> IF m = n THEN v ELSE f[m]]

\* A new process runs main() once the previous one has ended.
StartRun ==
  /\ pc \in {"idle", "done"}
  /\ run < MaxRuns
  /\ pc' = "check"
  /\ run' = run + 1
  /\ idx' = 1
  /\ icon' = NoIcon
  /\ exitStatus' = -1
  /\ cause' = "none"
  /\ srcFound' = FALSE
  /\ loaded' = FALSE
  /\ createdDir' = FALSE
  /\ written' = {}
  /\ packCalls' = 0
  /\ packRc' = -1
  /\ stages' = << >>
  /\ fs0' = FsState
  /\ UNCHANGED <<dirExists, files, icns, lastPastLoad, gradVars>>

\* `if not octo_source.exists(): ... sys.exit(1)`
SourceMissing ==
  /\ pc = "check"
  /\ pc' = "done"
  /\ exitStatus' = 1
  /\ cause' = "missing"
  /\ UNCHANGED <<run, idx, icon, dirExists, files, icns, srcFound, loaded,
                 createdDir, written, packCalls, packRc, stages, fs0,
                 lastPastLoad, gradVars>>

SourceFound ==
  /\ pc = "check"
  /\ pc' = "load"
  /\ srcFound' = TRUE
  /\ UNCHANGED <<run, idx, icon, dirExists, files, icns, exitStatus, cause,
                 loaded, createdDir, written, packCalls, packRc, stages, fs0,
                 lastPastLoad, gradVars>>

\* Slip: the staging directory is made before the image is opened.
LoadImageFailsAfterMkdir ==
  /\ pc = "load"
  /\ pc' = "done"
  /\ stages' = Enter("load")
  /\ dirExists' = TRUE
  /\ createdDir' = ~dirExists
  /\ exitStatus' = 1
  /\ cause' = "load"
  /\ UNCHANGED <<run, idx, icon, files, icns, srcFound, loaded, written,
                 packCalls, packRc, fs0, lastPastLoad, gradVars>>

\* Image.open / convert raises: `except Exception ... sys.exit(1)`
LoadImageFails ==
  /\ pc = "load"
  /\ pc' = "done"
  /\ stages' = Enter("load")
  /\ exitStatus' = 1
  /\ cause' = "load"
  /\ UNCHANGED <<run, idx, icon, dirExists, files, icns, srcFound, loaded,
                 createdDir, written, packCalls, packRc, fs0, lastPastLoad,
                 gradVars>>

LoadImage ==
  /\ pc = "load"
  /\ pc' = "mkdir"
  /\ stages' = Enter("load")
  /\ loaded' = TRUE
  /\ UNCHANGED <<run, idx, icon, dirExists, files, icns, exitStatus, cause,
                 srcFound, createdDir, written, packCalls, packRc, fs0,
                 lastPastLoad, gradVars>>

\* Slip: mkdir without exist_ok raises FileExistsError on a leftover
\* directory.
MkDirNoExistOk ==
  /\ pc = "mkdir"
  /\ stages' = Enter("mkdir")
  /\ IF dirExists
       THEN /\ pc' = "done"
            /\ exitStatus' = 1
            /\ cause' = "mkdir"
            /\ lastPastLoad' = "mkdir"
            /\ UNCHANGED <<dirExists, createdDir>>
       ELSE /\ pc' = "emit"
            /\ dirExists' = TRUE
            /\ createdDir' = TRUE
            /\ UNCHANGED <<exitStatus, cause, lastPastLoad>>
  /\ UNCHANGED <<run, idx, icon, files, icns, srcFound, loaded, written,
                 packCalls, packRc, fs0, gradVars>>

\* iconset_dir.mkdir(exist_ok=True)
MkDir ==
  /\ pc = "mkdir"
  /\ pc' = "emit"
  /\ stages' = Enter("mkdir")
  /\ dirExists' = TRUE
  /\ createdDir' = ~dirExists
  /\ UNCHANGED <<run, idx, icon, files, icns, exitStatus, cause, srcFound,
                 loaded, written, packCalls, packRc, fs0, lastPastLoad,
                 gradVars>>

\* The end of one iteration of `for size in ICON_SIZES`.
NextSize ==
  /\ idx' = idx + 1
  /\ pc' = IF idx = Len(ICON_SIZES) THEN "package" ELSE "emit"

\* An exception escaping main(): traceback, exit status 1, nothing undone.
Uncaught ==
  /\ pc' = "done"
  /\ exitStatus' = 1
  /\ cause' = "write"
  /\ lastPastLoad' = "write"

\* icon = create_icon_size(size, octo_image); icon.save(icon_{size}x{size}.png)
EmitBase ==
  /\ pc = "emit"
  /\ LET size == ICON_SIZES[idx]
         made == CreateIconSize(size)
     IN  /\ icon' = made
         /\ files' = Put(files, IconName(size, FALSE),
                         [pixels |-> made.side, run |-> run])
         /\ written' = written \cup {IconName(size, FALSE)}
         /\ IF NeedsRetina(size)
              THEN pc' = "emit2x" /\ idx' = idx
              ELSE NextSize
  /\ stages' = Enter("emit")
  /\ UNCHANGED <<run, dirExists, icns, exitStatus, cause, srcFound, loaded,
                 createdDir, packCalls, packRc, fs0, lastPastLoad, gradVars>>

\* icon.save raises (for instance OSError on a full disk)
EmitBaseFails ==
  /\ pc = "emit"
  /\ icon' = CreateIconSize(ICON_SIZES[idx])
  /\ stages' = Enter("emit")
  /\ Uncaught
  /\ UNCHANGED <<run, idx, dirExists, files, icns, srcFound, loaded,
                 createdDir, written, packCalls, packRc, fs0, gradVars>>

\* icon_2x = create_icon_size(size * 2, octo_image);
\* icon_2x.save(icon_{size}x{size}@2x.png)
EmitRetina ==
  /\ pc = "emit2x"
  /\ LET size == ICON_SIZES[idx]
         made == CreateIconSize(size * 2)
     IN  /\ icon' = made
         /\ files' = Put(files, IconName(size, TRUE),
                         [pixels |-> made.side, run |-> run])
         /\ written' = written \cup {IconName(size, TRUE)}
  /\ NextSize
  /\ stages' = Enter("emit")
  /\ UNCHANGED <<run, dirExists, icns, exitStatus, cause, srcFound, loaded,
                 createdDir, packCalls, packRc, fs0, lastPastLoad, gradVars>>

\* icon_2x.save raises
EmitRetinaFails ==
  /\ pc = "emit2x"
  /\ icon' = CreateIconSize(ICON_SIZES[idx] * 2)
  /\ stages' = Enter("emit")
  /\ Uncaught
  /\ UNCHANGED <<run, idx, dirExists, files, icns, srcFound, loaded,
                 createdDir, written, packCalls, packRc, fs0, gradVars>>

\* create_icns_file: iconutil returns zero and has written AppIcon.icns
CreateIcns ==
  /\ pc = "package"
  /\ pc' = "cleanup"
  /\ stages' = Enter("package")
  /\ packCalls' = packCalls + 1
  /\ packRc' = 0
  /\ icns' = [exists |-> TRUE, run |-> run]
  /\ UNCHANGED <<run, idx, icon, dirExists, files, exitStatus, cause,
                 srcFound, loaded, createdDir, written, fs0, lastPastLoad,
                 gradVars>>

\* Slip: subprocess.run without check=True, a non-zero return is not noticed.
CreateIcnsNonZeroIgnored ==
  /\ pc = "package"
  /\ pc' = "cleanup"
  /\ stages' = Enter("package")
  /\ packCalls' = packCalls + 1
  /\ packRc' = 1
  /\ UNCHANGED <<run, idx, icon, dirExists, files, icns, exitStatus, cause,
                 srcFound, loaded, createdDir, written, fs0, lastPastLoad,
                 gradVars>>

\* Slip: a failed iconutil call is tried again.
CreateIcnsNonZeroRetried ==
  /\ pc = "package"
  /\ packCalls < 3
  /\ pc' = "package"
  /\ stages' = Enter("package")
  /\ packCalls' = packCalls + 1
  /\ packRc' = 1
  /\ UNCHANGED <<run, idx, icon, dirExists, files, icns, exitStatus, cause,
                 srcFound, loaded, createdDir, written, fs0, lastPastLoad,
                 gradVars>>

\* `except subprocess.CalledProcessError ... sys.exit(1)`
CreateIcnsNonZero ==
  /\ pc = "package"
  /\ pc' = "done"
  /\ stages' = Enter("package")
  /\ packCalls' = packCalls + 1
  /\ packRc' = 1
  /\ exitStatus' = 1
  /\ cause' = "iconutil_nonzero"
  /\ lastPastLoad' = "pack"
  /\ UNCHANGED <<run, idx, icon, dirExists, files, icns, srcFound, loaded,
                 createdDir, written, fs0, gradVars>>

\* `except FileNotFoundError ... sys.exit(1)`
CreateIcnsNotFound ==
  /\ pc = "package"
  /\ pc' = "done"
  /\ stages' = Enter("package")
  /\ packCalls' = packCalls + 1
  /\ exitStatus' = 1
  /\ cause' = "iconutil_missing"
  /\ lastPastLoad' = "pack"
  /\ UNCHANGED <<run, idx, icon, dirExists, files, icns, srcFound, loaded,
                 createdDir, written, packRc, fs0, gradVars>>

\* Slip: the directory is not removed.
CleanUpKeepsDir ==
  /\ pc = "cleanup"
  /\ pc' = "done"
  /\ stages' = Enter("cleanup")
  /\ exitStatus' = 0
  /\ cause' = "ok"
  /\ lastPastLoad' = "ok"
  /\ UNCHANGED <<run, idx, icon, dirExists, files, icns, srcFound, loaded,
                 createdDir, written, packCalls, packRc, fs0, gradVars>>

\* shutil.rmtree(iconset_dir), then main() returns: exit status 0
CleanUp ==
  /\ pc = "cleanup"
  /\ pc' = "done"
  /\ stages' = Enter("cleanup")
  /\ dirExists' = FALSE
  /\ files' = NoFiles
  /\ exitStatus' = 0
  /\ cause' = "ok"
  /\ lastPastLoad' = "ok"
  /\ UNCHANGED <<run, idx, icon, icns, srcFound, loaded, createdDir, written,
                 packCalls, packRc, fs0, gradVars>>

Next ==
  \/ StartRun
  \/ SourceMissing
  \/ SourceFound
  \/ LoadImageFails
  \/ LoadImage
  \/ MkDir
  \/ EmitBase
  \/ EmitBaseFails
  \/ EmitRetina
  \/ EmitRetinaFails
  \/ CreateIcns
  \/ CreateIcnsNonZero
  \/ CreateIcnsNotFound
  \/ CleanUp

Spec == Init /\ [][Next]_vars

\* ------------------------------------------------------------------------
\* The gradient renderer observed pixel by pixel
\* ------------------------------------------------------------------------
\* The sizes create_gradient_background is called with: every size of
\* ICON_SIZES, and its double where the @2x variant is written.
RenderSizes == SizeSet \cup {2 * s : s \in {t \in SizeSet : NeedsRetina(t)}}

InitGradient ==
  /\ pc = "idle"
  /\ run = 0
  /\ idx = 1
  /\ icon = NoIcon
  /\ dirExists = FALSE
  /\ files = NoFiles
  /\ icns = [exists |-> FALSE, run |-> 0]
  /\ exitStatus = -1
  /\ cause = "none"
  /\ srcFound = FALSE
  /\ loaded = FALSE
  /\ createdDir = FALSE
  /\ written = {}
  /\ packCalls = 0
  /\ packRc = -1
  /\ stages = << >>
  /\ fs0 = [dir |-> FALSE, files |-> NoFiles, icns |-> icns]
  /\ lastPastLoad = "none"
  /\ gsize \in RenderSizes
  /\ gx = 0
  /\ gy = 0
  /\ gpix = GradientPixel(gsize, 0, 0)

\* pixels[x, y] = (r, g, b) for the pixel at (x, y) of the size x size image
Observe(x, y) ==
  /\ x \in 0..(gsize - 1)
  /\ y \in 0..(gsize - 1)
  /\ gx' = x
  /\ gy' = y
  /\ gpix' = GradientPixel(gsize, x, y)
  /\ UNCHANGED <<gsize, pipeVars>>

\* Moves of the observed pixel: one to the right or one down (the next
\* diagonal), or one along its own diagonal in either direction.
StepRight == Observe(gx + 1, gy)

StepDown == Observe(gx, gy + 1)

StepUpRight == Observe(gx + 1, gy - 1)

StepDownLeft == Observe(gx - 1, gy + 1)

NextGradient ==
  \/ StepRight
  \/ StepDown
  \/ StepUpRight
  \/ StepDownLeft

SpecGradient == InitGradient /\ [][NextGradient]_vars

\* ------------------------------------------------------------------------
\* Properties
\* ------------------------------------------------------------------------
\* The names one complete pass of the loop in main() saves.
StagedNames ==
  BaseNames \cup {IconName(s, TRUE) : s \in {t \in SizeSet : NeedsRetina(t)}}

IsPrefix(s, t) ==
  /\ Len(s) <= Len(t)
  /\ \A i \in 1..Len(s) : s[i] = t[i]

\* C1 as stated: when the packager is about to be invoked the run has
\* written exactly 13 distinct files, 7 base files and 6 @2x files.
C1_ThirteenStagedFiles ==
  pc = "package" =>
    /\ Cardinality(written) = 13
    /\ Cardinality(written \cap BaseNames) = 7
    /\ Cardinality(written \cap RetinaNames) = 6

\* C1 amended: when the packager is about to be invoked the run has written
\* exactly 11 distinct files, the 7 base files and the 4 @2x files of sizes
\* 16, 32, 64 and 128.
C1_ElevenStagedFiles ==
  pc = "package" =>
    /\ Cardinality(written) = 11
    /\ written \cap BaseNames = {IconName(s, FALSE) : s \in SizeSet}
    /\ Cardinality(written \cap BaseNames) = 7
    /\ written \cap RetinaNames = {IconName(s, TRUE) : s \in {16, 32, 64, 128}}

C1_Witness ==
  /\ pc = "package"
  /\ packCalls = 0
  /\ Cardinality(written) = 11
  /\ IconName(1024, FALSE) \in written

C3_NoProcessingBeforeLoad ==
  (pc # "idle" /\ ~loaded) =>
    /\ ~createdDir
    /\ written = {}
    /\ packCalls = 0
    /\ FsState = fs0
    /\ IsPrefix(stages, <<"load">>)
    /\ pc = "done" => exitStatus = 1

C3_Witness ==
  /\ pc = "done"
  /\ srcFound
  /\ ~loaded
  /\ exitStatus = 1
  /\ fs0.dir
  /\ dirExists

\* C4: a run that ends with exit status 0 went through every stage (the
\* directory made, all files saved, the packager invoked once, the directory
\* removed); in its final state the staging directory does not exist and the
\* icon container, written by this run, does.
C4_NoStagingDirAfterSuccess ==
  (pc = "done" /\ exitStatus = 0) =>
    /\ stages = StageOrder
    /\ written = StagedNames
    /\ packCalls = 1
    /\ ~dirExists
    /\ files = NoFiles
    /\ icns.exists
    /\ icns.run = run

C4_Witness ==
  /\ pc = "done"
  /\ exitStatus = 0
  /\ createdDir
  /\ ~dirExists

\* C5 as stated: a staging directory created by a run remains after the run
\* has ended only if the packager was invoked and failed (not found, or
\* non-zero exit).
C5_DirLeftOnlyOnPackagingFailure ==
  (pc = "done" /\ createdDir /\ dirExists) =>
    (packCalls = 1 /\ packRc # 0)

\* C8: every icon create_icon_size returns in the pipeline is for a size of
\* the required set, is size x size, embeds the source at floor(size * 0.8)
\* pixels per side at offset (size - scaled) // 2 on both axes, wholly inside
\* the canvas, with opposite margins differing by at most 1; at size 128 the
\* embedded region is 102 x 102 at offset 13.
C8_CompositorGeometry ==
  icon # NoIcon =>
    LET s == icon.request
        o == icon.octo_size
        off == icon.x_offset
    IN  /\ s \in SizeSet
        /\ icon.side = s
        /\ 10 * o <= 8 * s
        /\ 8 * s < 10 * (o + 1)
        /\ icon.y_offset = off
        /\ 2 * off <= s - o
        /\ s - o <= 2 * off + 1
        /\ off >= 0
        /\ off + o <= s
        /\ Abs(off - (s - off - o)) <= 1
        /\ s = 128 => (o = 102 /\ off = 13)

C8_Witness ==
  /\ icon.request = 128
  /\ icon.octo_size = 102
  /\ icon.x_offset = 13
  /\ IconName(128, FALSE) \in written

\* C9: within a run the stages are entered in the order load, mkdir, emit,
\* package, cleanup and none is entered again; the packager is invoked at
\* most once, only after the base file of every size has been written, and
\* an icon container produced by the run comes from a directory holding all
\* of them.
C9_StageOrder ==
  /\ IsPrefix(stages, StageOrder)
  /\ packCalls <= 1
  /\ packCalls = 1 => BaseNames \subseteq written
  /\ (run > 0 /\ icns.exists /\ icns.run = run) => BaseNames \subseteq written

C9_Witness ==
  /\ pc = "cleanup"
  /\ packCalls = 1
  /\ stages = <<"load", "mkdir", "emit", "package">>
  /\ BaseNames \subseteq written

AtNearCorner == gx = 0 /\ gy = 0

AtFarCorner == gx = gsize - 1 /\ gy = gsize - 1

\* C6 as stated: at every rendered size pixel (0,0) is exactly stop A and
\* pixel (size-1, size-1) is within 1 of stop C in every channel.
C6_CornersWithinOne ==
  /\ AtNearCorner => gpix = INDIGO_500
  /\ AtFarCorner => \A c \in 1..3 : Abs(gpix[c] - PURPLE_500[c]) <= 1

\* C6 amended: at every rendered size pixel (0,0) is exactly stop A; pixel
\* (size-1, size-1) is within 1 of stop C in green and blue at every size
\* and in red at sizes 64 and above, while at sizes 16 and 32 its red is 164
\* and 166, that is 4 and 2 below stop C.
C6_CornersBySize ==
  /\ AtNearCorner => gpix = INDIGO_500
  /\ AtFarCorner =>
       /\ Abs(gpix[2] - PURPLE_500[2]) <= 1
       /\ Abs(gpix[3] - PURPLE_500[3]) <= 1
       /\ gsize >= 64 => Abs(gpix[1] - PURPLE_500[1]) <= 1
       /\ gsize = 16 => gpix[1] = 164
       /\ gsize = 32 => gpix[1] = 166

C6_Witness ==
  /\ AtFarCorner
  /\ gsize = 16
  /\ gpix = <<164, 85, 246>>

\* No channel leaves the range spanned by its stops.
InStopRange(p) ==
  /\ p[1] \in 99..168
  /\ p[2] \in 85..102
  /\ p[3] \in 241..247

\* From colour p to colour q red and blue do not fall and green does not
\* rise.
ChannelOrder(p, q) ==
  /\ p[1] <= q[1]
  /\ p[2] >= q[2]
  /\ p[3] <= q[3]

\* C7: at every rendered size every pixel is inside the stop ranges, and
\* going from a pixel to any neighbour that is not on an earlier diagonal
\* (x + y not smaller) red and blue do not fall and green does not rise,
\* the step across x + y = size included.  Any two pixels p, q with
\* x_p + y_p <= x_q + y_q are joined by such steps.
C7_MonotoneInRange ==
  /\ [](InStopRange(gpix))
  /\ [][(gx' + gy' >= gx + gy) => ChannelOrder(gpix, gpix')]_vars

C7_Witness ==
  /\ gsize = 1024
  /\ gx + gy = gsize
  /\ gx = 1000
  /\ gpix = VIOLET_500

====
